---- MODULE Spec2Model ----
(***************************************************************************)
(* Verification model of the real-time news pipeline:                      *)
(*   src/src/core/protected_news_processor.py  (validator / stamper,       *)
(*                                              line reader)               *)
(*   src/src/core/backpressure_controller.py   (pause / resume controller) *)
(*   src/src/core/websocket_manager.py         (subscriber registry)       *)
(*   src/src/core/news_stream_generator.py     (ingestion loops)           *)
(*   src/main.py                               (the unprotected variant)   *)
(*   src/src/api/routes.py                     (GET /api/news)             *)
(*   src/main_fixed.py, src/src/core/server.py (the batching broadcast)    *)
(*                                                                         *)
(* Times are integers in milliseconds, memory in MiB, sizes in bytes.      *)
(* Python's None is the string NONE; a processing_id of NO_ID is "no item  *)
(* returned".  The Chinese reason strings of the source are written in     *)
(* English, one constant per source literal.                               *)
(***************************************************************************)
EXTENDS Integers, Sequences, FiniteSets, TLC

VARIABLES
    \* ---- ProtectedNewsProcessor (main.py: NewsProcessor)
    processed_count,        \* self.processed_count
    rejected_count,         \* self.rejected_count
    categories_count,       \* self.categories_count : category -> count
    np_processing_times,    \* processor's self.processing_times, deque(maxlen=100)
    \* ---- BackpressureController
    is_paused,              \* self.is_paused
    pause_reason,           \* self.pause_reason
    processing_times,       \* controller's self.processing_times, deque(maxlen=100)
    processing_queue,       \* self.processing_queue (asyncio.Queue)
    \* ---- environment
    memory_mb,              \* resident memory of the process as psutil reports it
    \* ---- history buffer
    news_buffer,            \* sequence of processing_ids, oldest first
    \* ---- WebSocketManager
    active_connections,     \* list of subscriber handles
    ws_state,               \* lifecycle of each handle: "new", "open", "closed"
    broadcast_stats,        \* [total_sent, total_errors, backpressure_events]
    \* ---- ingestion task
    mode,                   \* which loop this run drives
    pc,                     \* position of the ingestion task
    i,                      \* for-loop index of the current tick
    memory_check_counter,   \* local of generate_protected_news_stream
    total_generated,        \* local of generate_protected_news_stream
    stats_counter,          \* local of generate_protected_news_stream
    news_item,              \* local: the raw item last handed to process_news
    processed_news,         \* local: processing_id returned, NO_ID for None
    tasks,                  \* handles of the round being gathered
    reader_stats,           \* SafeStreamReader: [lines_processed, errors_count]
    \* ---- history (not program state)
    calls,                  \* number of process_news invocations so far
    accepted_ids,           \* processing_ids of the items process_news returned
    has_resumed,            \* wait_for_resume has made a PAUSED -> RUNNING transition
    \* ---- one gather, send by send
    results,                \* outcome of each task of the round: "pending", "ok", "err"
    delivered,              \* per handle, the processing_ids its peer has received
    \* ---- batching variant (src/main_fixed.py, src/src/core/server.py)
    broadcast_buffer,       \* global broadcast_buffer: processing_ids queued
    last_broadcast_time,    \* global last_broadcast_time, ms
    now,                    \* time.time(), ms
    \* ---- HTTP API
    latest_news,            \* the last response of GET /api/news
    \* ---- src/main.py, broadcast_news / broadcast_statistics
    disconnected_clients    \* local: the connections whose send raised in this round

vars == <<processed_count, rejected_count, categories_count, np_processing_times,
          is_paused, pause_reason, processing_times, processing_queue,
          memory_mb, news_buffer, active_connections, ws_state, broadcast_stats,
          mode, pc, i, memory_check_counter, total_generated, stats_counter,
          news_item, processed_news, tasks, reader_stats, calls, accepted_ids,
          has_resumed, results, delivered, broadcast_buffer, last_broadcast_time,
          now, latest_news, disconnected_clients>>

\* the variables only the send-by-send, batching and API specifications move
extVars == <<results, delivered, broadcast_buffer, last_broadcast_time, now,
             latest_news, disconnected_clients>>

processorVars == <<processed_count, rejected_count, categories_count,
                   np_processing_times>>
controllerVars == <<is_paused, pause_reason, processing_times, processing_queue>>
managerVars == <<active_connections, ws_state, broadcast_stats>>
loopVars == <<mode, pc, i, memory_check_counter, total_generated, stats_counter,
              news_item, processed_news, tasks, reader_stats>>

NONE == "None"
NO_ID == 0

-----------------------------------------------------------------------------
(* Generic helpers                                                          *)

RECURSIVE SumSeq(_)
SumSeq(s) == IF s = <<>> THEN 0 ELSE Head(s) + SumSeq(Tail(s))

DequeAppendKeepsAll(d, x, maxlen) == Append(d, x)

\* collections.deque(maxlen=n).append(x): drops the leftmost element when full
DequeAppend(d, x, maxlen) ==
    IF Len(d) >= maxlen THEN Append(Tail(d), x) ELSE Append(d, x)

\* the window size given to deque(maxlen=...) by both processors
WINDOW_MAXLEN == 100

-----------------------------------------------------------------------------
(* Raw items                                                                *)

ABSENT == "<absent>"          \* key not in the dict
EMPTY == ""                   \* key present, falsy value
UNHASHABLE == "<list>"        \* a JSON array: truthy, but not a dict key

REQUIRED_FIELDS == <<"title", "source", "category", "company">>

MAX_JSON_SIZE == 100 * 1024

Categories == {"AI", "Cloud"}

RawItem(title, source, category, company, serializable, json_size) ==
    [title |-> title, source |-> source, category |-> category,
     company |-> company, serializable |-> serializable, json_size |-> json_size]

NO_ITEM == RawItem(ABSENT, ABSENT, ABSENT, ABSENT, TRUE, 0)

ValidItems ==
    { RawItem("t", "s", c, "co", TRUE, n) : c \in Categories, n \in {500, MAX_JSON_SIZE} }

MissingFieldItems ==
    { RawItem(ABSENT, "s", "AI", "co", TRUE, 500),      \* no title
      RawItem("t", EMPTY, "AI", "co", TRUE, 500),       \* empty source
      RawItem("t", "s", EMPTY, "co", TRUE, 500),        \* empty category
      RawItem(ABSENT, "s", "AI", ABSENT, TRUE, 500),    \* two fields missing
      RawItem(ABSENT, "s", "AI", "co", TRUE, MAX_JSON_SIZE + 1) }

OversizeItems == { RawItem("t", "s", "Cloud", "co", TRUE, MAX_JSON_SIZE + 1) }

\* items on which the body of process_news raises
RaisingItems ==
    { RawItem("t", "s", UNHASHABLE, "co", TRUE, 500),   \* categories_count[[..]]
      RawItem("t", "s", "AI", "co", FALSE, 500) }       \* json.dumps raises

RawItems == ValidItems \cup MissingFieldItems \cup OversizeItems \cup RaisingItems

\* `field not in news_item or not news_item[field]`
FieldMissing(item, field) == item[field] \in {ABSENT, EMPTY}

MissingFields(item) ==
    { k \in 1..Len(REQUIRED_FIELDS) : FieldMissing(item, REQUIRED_FIELDS[k]) }

-----------------------------------------------------------------------------
(* ProtectedNewsProcessor.process_news                                      *)

\* a rejecting return: `self.rejected_count += 1; return None`
RejectPerMissingField(item) ==
    /\ rejected_count' = rejected_count + Cardinality(MissingFields(item))
    /\ processed_news' = NO_ID
    /\ UNCHANGED <<processed_count, categories_count, np_processing_times,
                   accepted_ids>>

RejectMissingField(item) ==
    /\ rejected_count' = rejected_count + 1
    /\ processed_news' = NO_ID
    /\ UNCHANGED <<processed_count, categories_count, np_processing_times,
                   accepted_ids>>

RejectOversize(item) ==
    /\ rejected_count' = rejected_count + 1
    /\ processed_news' = NO_ID
    /\ UNCHANGED <<processed_count, categories_count, np_processing_times,
                   accepted_ids>>

\* the `except Exception` handler, entered with processed_count as the body left it
RejectOnException(count_so_far) ==
    /\ processed_count' = count_so_far
    /\ rejected_count' = rejected_count + 1
    /\ processed_news' = NO_ID
    /\ UNCHANGED <<categories_count, np_processing_times, accepted_ids>>

\* the successful path, lines 41-55
Stamp(item, processing_time) ==
    /\ processed_count' = processed_count + 1
    /\ categories_count' =
           [categories_count EXCEPT ![item.category] = @ + 1]
    /\ processed_news' = processed_count + 1
    /\ np_processing_times' =
           DequeAppend(np_processing_times, processing_time, WINDOW_MAXLEN)
    /\ accepted_ids' = Append(accepted_ids, processed_count + 1)
    /\ UNCHANGED rejected_count

process_news(item, processing_time) ==
    /\ calls' = calls + 1
    /\ news_item' = item
    /\ IF MissingFields(item) # {}
         THEN RejectMissingField(item)
       ELSE IF ~item.serializable
         THEN RejectOnException(processed_count)
       ELSE IF item.json_size > MAX_JSON_SIZE
         THEN RejectOversize(item)
       ELSE IF item.category = UNHASHABLE
         THEN RejectOnException(processed_count + 1)
       ELSE Stamp(item, processing_time)

-----------------------------------------------------------------------------
(* BackpressureController                                                   *)

\* BACKPRESSURE_CONFIG['max_memory_usage'] / 1024 / 1024
MAX_MEMORY_MB == 200
\* BACKPRESSURE_CONFIG['processing_delay_threshold'], in milliseconds
PROCESSING_DELAY_THRESHOLD_MS == 100
\* `if len(self.processing_times) < 10: return False`
MIN_DELAY_SAMPLES == 10
\* BACKPRESSURE_CONFIG['max_queue_size']
MAX_QUEUE_SIZE == 10000

\* memory_mb takes this value when psutil cannot read the process
MEMORY_READ_FAILS == -1

MEMORY_REASON == "memory usage too high"
DELAY_REASON == "processing delay too high"
QUEUE_REASON == "queue nearly full"
Reasons == {MEMORY_REASON, DELAY_REASON, QUEUE_REASON}

check_memory_usage_fails_closed ==
    IF memory_mb = MEMORY_READ_FAILS THEN TRUE
    ELSE memory_mb > MAX_MEMORY_MB

check_memory_usage ==
    IF memory_mb = MEMORY_READ_FAILS THEN FALSE      \* except Exception: return False
    ELSE memory_mb > MAX_MEMORY_MB

check_processing_delay_no_minimum ==
    IF processing_times = <<>> THEN FALSE
    ELSE SumSeq(processing_times) > PROCESSING_DELAY_THRESHOLD_MS * Len(processing_times)

\* sum / len > threshold, on integers
check_processing_delay ==
    IF Len(processing_times) < MIN_DELAY_SAMPLES THEN FALSE
    ELSE SumSeq(processing_times) > PROCESSING_DELAY_THRESHOLD_MS * Len(processing_times)

queue_nearly_full_from_empty == Len(processing_queue) * 10 >= 0

\* qsize() > max_queue_size * 0.8
queue_nearly_full == Len(processing_queue) * 10 > MAX_QUEUE_SIZE * 8

should_pause_processing_delay_first ==
    IF check_processing_delay THEN [pause |-> TRUE, reason |-> DELAY_REASON]
    ELSE IF check_memory_usage THEN [pause |-> TRUE, reason |-> MEMORY_REASON]
    ELSE IF queue_nearly_full THEN [pause |-> TRUE, reason |-> QUEUE_REASON]
    ELSE [pause |-> FALSE, reason |-> ""]

should_pause_processing ==
    IF check_memory_usage THEN [pause |-> TRUE, reason |-> MEMORY_REASON]
    ELSE IF check_processing_delay THEN [pause |-> TRUE, reason |-> DELAY_REASON]
    ELSE IF queue_nearly_full THEN [pause |-> TRUE, reason |-> QUEUE_REASON]
    ELSE [pause |-> FALSE, reason |-> ""]

pause_processing_last_reason_wins(reason) ==
    is_paused' = TRUE /\ pause_reason' = reason

pause_processing_wrong_reason(reason) ==
    IF ~is_paused
      THEN is_paused' = TRUE /\ pause_reason' = DELAY_REASON
      ELSE UNCHANGED <<is_paused, pause_reason>>

pause_processing(reason) ==
    IF ~is_paused
      THEN is_paused' = TRUE /\ pause_reason' = reason
      ELSE UNCHANGED <<is_paused, pause_reason>>

resume_processing_keeps_reason ==
    IF is_paused
      THEN is_paused' = FALSE /\ UNCHANGED pause_reason
      ELSE UNCHANGED <<is_paused, pause_reason>>

resume_processing ==
    IF is_paused
      THEN is_paused' = FALSE /\ pause_reason' = NONE
      ELSE UNCHANGED <<is_paused, pause_reason>>

\* one pass of the body of `while self.is_paused:` after its sleep; the value is
\* whether the loop is left (break)
wait_iteration_ignores_delay ==
    IF ~check_memory_usage THEN resume_processing
    ELSE UNCHANGED <<is_paused, pause_reason>>

wait_iteration_never_resumes == UNCHANGED <<is_paused, pause_reason>>

wait_iteration ==
    IF ~should_pause_processing.pause THEN resume_processing
    ELSE UNCHANGED <<is_paused, pause_reason>>

-----------------------------------------------------------------------------
(* Initial values                                                           *)

Subscribers == {"s1", "s2"}
\* the handles that connect while an ingestion loop runs
LoopSubscribers == {"s2"}

InitProcessor ==
    /\ processed_count = 0
    /\ rejected_count = 0
    /\ categories_count = [c \in Categories |-> 0]
    /\ np_processing_times = <<>>

InitController ==
    /\ is_paused = FALSE
    /\ pause_reason = NONE
    /\ processing_times = <<>>
    /\ processing_queue = <<>>

InitManager ==
    /\ active_connections = <<>>
    /\ ws_state = [s \in Subscribers |-> "new"]
    /\ broadcast_stats = [total_sent |-> 0, total_errors |-> 0,
                          backpressure_events |-> 0]

InitRest ==
    /\ news_buffer = <<>>
    /\ pc = IF mode = "main" THEN "main_item"
            ELSE IF mode = "batch" THEN "batch_idle" ELSE "top"
    /\ i = 0
    /\ memory_check_counter = 0
    /\ total_generated = 0
    /\ stats_counter = 0
    /\ news_item = NO_ITEM
    /\ processed_news = NO_ID
    /\ tasks = <<>>
    /\ reader_stats = [lines_processed |-> 0, errors_count |-> 0]
    /\ calls = 0
    /\ accepted_ids = <<>>
    /\ has_resumed = FALSE
    /\ results = <<>>
    /\ delivered = [s \in DOMAIN ws_state |-> <<>>]
    /\ broadcast_buffer = <<>>
    /\ last_broadcast_time = 0
    /\ now = 0
    /\ latest_news = [served |-> FALSE, news |-> <<>>, buffer_size |-> 0]
    /\ disconnected_clients = <<>>

-----------------------------------------------------------------------------
(* SpecProc: the processor alone, driven by arbitrary process_news calls    *)

ProcMaxCalls == 4

ProcTimesMs == {0, 1}

ProcInit ==
    /\ mode = "processor"
    /\ InitProcessor /\ InitController /\ InitManager /\ InitRest
    /\ memory_mb = 150

ProcCall ==
    /\ calls < ProcMaxCalls
    /\ \E item \in RawItems, t \in ProcTimesMs : process_news(item, t)
    /\ UNCHANGED <<controllerVars, managerVars, memory_mb, news_buffer, mode, pc, i,
                   memory_check_counter, total_generated, stats_counter, tasks,
                   reader_stats, has_resumed>>
    /\ UNCHANGED extVars

ProcNext == ProcCall

SpecProc == ProcInit /\ [][ProcNext]_vars

-----------------------------------------------------------------------------
(* SpecCtl: the controller alone, driven by arbitrary calls of its methods  *)

CtlMaxSamples == 11

DurationsMs == {50, 150}

MemorySamples == {MAX_MEMORY_MB, 250}

CtlInit ==
    /\ mode = "controller"
    /\ InitProcessor /\ InitController /\ InitManager /\ InitRest
    /\ memory_mb \in MemorySamples

ctlFrame == <<processorVars, managerVars, news_buffer, loopVars, calls, accepted_ids,
                   has_resumed>>

CtlPause ==
    /\ \E reason \in Reasons : pause_processing(reason)
    /\ UNCHANGED <<processing_times, processing_queue, memory_mb, ctlFrame>>
    /\ UNCHANGED extVars

CtlResume ==
    /\ resume_processing
    /\ UNCHANGED <<processing_times, processing_queue, memory_mb, ctlFrame>>
    /\ UNCHANGED extVars

\* wait_for_resume, one pass: returns at once when not paused
CtlWaitForResume ==
    /\ IF is_paused THEN wait_iteration ELSE UNCHANGED <<is_paused, pause_reason>>
    /\ UNCHANGED <<processing_times, processing_queue, memory_mb, ctlFrame>>
    /\ UNCHANGED extVars

\* backpressure_controller.processing_times.append(broadcast_time)
CtlRecordTime ==
    /\ Len(processing_times) < CtlMaxSamples
    /\ \E d \in DurationsMs :
          processing_times' = DequeAppend(processing_times, d, WINDOW_MAXLEN)
    /\ UNCHANGED <<is_paused, pause_reason, processing_queue, memory_mb, ctlFrame>>
    /\ UNCHANGED extVars

MemoryChanges ==
    /\ \E m \in MemorySamples \cup {MEMORY_READ_FAILS} :
          m # memory_mb /\ memory_mb' = m
    /\ UNCHANGED <<controllerVars, ctlFrame>>
    /\ UNCHANGED extVars

CtlNext == CtlPause \/ CtlResume \/ CtlWaitForResume \/ CtlRecordTime \/ MemoryChanges

SpecCtl == CtlInit /\ [][CtlNext]_vars

-----------------------------------------------------------------------------
(* SpecPause: should_pause_processing applied to controller states drawn    *)
(* from the boundaries of its three conditions                              *)

PauseMaxSamples == 11

\* a latency window of n samples: k of 150 ms, then n - k of 50 ms
Window(n, k) == [j \in 1..n |-> IF j <= k THEN 150 ELSE 50]

WindowLengths == {0, MIN_DELAY_SAMPLES - 1, MIN_DELAY_SAMPLES, PauseMaxSamples}

\* for each length: all fast, average at the threshold, just above it, all slow
Windows ==
    {Window(n, k) : <<n, k>> \in {<<n, k>> \in WindowLengths \X (0..PauseMaxSamples) :
                                     k \in {0, n \div 2, n \div 2 + 1, n} /\ k <= n}}

\* qsize() around max_queue_size * 0.8
QueueSizes == {0, (MAX_QUEUE_SIZE * 8) \div 10, (MAX_QUEUE_SIZE * 8) \div 10 + 1}

PauseInit ==
    /\ mode = "controller"
    /\ InitProcessor /\ InitManager /\ InitRest
    /\ is_paused = FALSE
    /\ pause_reason = NONE
    /\ processing_times \in Windows
    /\ processing_queue \in {[j \in 1..n |-> 0] : n \in QueueSizes}
    /\ memory_mb \in MemorySamples \cup {MEMORY_READ_FAILS}

\* read_line_safe lines 88-91: ask the controller, pause with the reason it gives
PauseGate ==
    /\ LET sp == should_pause_processing IN
          IF sp.pause THEN pause_processing(sp.reason)
          ELSE UNCHANGED <<is_paused, pause_reason>>
    /\ UNCHANGED <<processing_times, processing_queue, memory_mb, ctlFrame>>
    /\ UNCHANGED extVars

PauseNext == PauseGate \/ CtlWaitForResume \/ MemoryChanges

SpecPause == PauseInit /\ [][PauseNext]_vars

-----------------------------------------------------------------------------
(* WebSocketManager                                                          *)

\* time one send to subscriber s takes
SendLatencyMs(s) == IF s = "s1" THEN 50 ELSE 150

RECURSIVE MaxLatency(_)
MaxLatency(ts) ==
    IF ts = <<>> THEN 0
    ELSE LET m == MaxLatency(Tail(ts))
             l == SendLatencyMs(Head(ts))
         IN IF l > m THEN l ELSE m

\* broadcast_time = time.time() - start_time around asyncio.gather: the slowest send
BroadcastTimeMs(ts) == MaxLatency(ts)

record_broadcast_time_twice(times, t) ==
    DequeAppend(DequeAppend(times, t, WINDOW_MAXLEN), t, WINDOW_MAXLEN)

\* backpressure_controller.processing_times.append(broadcast_time)
record_broadcast_time(times, t) == DequeAppend(times, t, WINDOW_MAXLEN)

\* send_safe returns the exception when the peer has closed
SendFails(s) == ws_state[s] # "open"

Errors(ts) == Cardinality({k \in 1..Len(ts) : SendFails(ts[k])})

RECURSIVE Remove(_, _)
\* list.remove(x): the first occurrence
Remove(list, x) ==
    IF list = <<>> THEN <<>>
    ELSE IF Head(list) = x THEN Tail(list)
    ELSE <<Head(list)>> \o Remove(Tail(list), x)

InList(list, x) == \E k \in 1..Len(list) : list[k] = x

record_round_from_stale_counters(stats, attempted, errors) ==
    [stats EXCEPT !.total_sent = attempted - errors, !.total_errors = errors]

\* broadcast_stats['total_sent'] += len(tasks) - errors;
\* broadcast_stats['total_errors'] += errors
record_round(stats, attempted, errors) ==
    [stats EXCEPT !.total_sent = @ + (attempted - errors), !.total_errors = @ + errors]

\* the counter updates after a gather over ts
CountResults(ts) ==
    broadcast_stats' = record_round(broadcast_stats, Len(ts), Errors(ts))

\* WebSocketEndpoint.handle_websocket up to its receive loop: connect, then one
\* broadcast_statistics round over the registry as it is after the append
HandleWebsocketConnect(s) ==
    /\ ws_state[s] = "new"
    /\ ws_state' = [ws_state EXCEPT ![s] = "open"]
    /\ active_connections' = Append(active_connections, s)
    /\ broadcast_stats' =
          LET ts == Append(active_connections, s)
              e == Cardinality({k \in 1..Len(ts) : ts[k] # s /\ SendFails(ts[k])})
          IN record_round(broadcast_stats, Len(ts), e)

disconnect_keeps_entry(list, s) == list

\* WebSocketManager.disconnect: `if websocket in ...: ....remove(websocket)`
disconnect(list, s) == IF InList(list, s) THEN Remove(list, s) ELSE list

\* receive_text raises WebSocketDisconnect: WebSocketManager.disconnect
HandleWebsocketDisconnect(s) ==
    /\ ws_state[s] = "open"
    /\ ws_state' = [ws_state EXCEPT ![s] = "closed"]
    /\ active_connections' = disconnect(active_connections, s)
    /\ UNCHANGED broadcast_stats

-----------------------------------------------------------------------------
(* NewsStreamGenerator: the two ingestion loops                              *)

\* NEWS_CONFIG['news_per_second'], scaled
NewsPerSecond == 2
\* BACKPRESSURE_CONFIG['memory_check_interval'], scaled
MemoryCheckInterval == 2
\* NEWS_CONFIG['stats_broadcast_interval'], scaled
StatsBroadcastInterval == 3
\* `processing_id % 10 == 0` in safe_read_news_stream
READER_STATS_INTERVAL == 10
\* the history buffer: deque(maxlen=1000)
BUFFER_MAXLEN == 1000

MaxCalls == 11
MaxRejected == 1
MaxErrors == 1

LoopItems ==
    { RawItem("t", "s", "AI", "co", TRUE, 500),
      RawItem(ABSENT, "s", "AI", ABSENT, TRUE, 500),
      RawItem("t", "s", "Cloud", "co", TRUE, MAX_JSON_SIZE + 1),
      RawItem("t", "s", UNHASHABLE, "co", TRUE, 500) }

Accepts(item) ==
    /\ MissingFields(item) = {}
    /\ item.serializable
    /\ item.json_size <= MAX_JSON_SIZE
    /\ item.category # UNHASHABLE

StatsInterval == IF mode = "gen" THEN StatsBroadcastInterval ELSE READER_STATS_INTERVAL

NextItemUncounted ==
    IF mode = "gen" THEN pc' = "for" /\ i' = i
    ELSE pc' = "top" /\ i' = i

\* where the loop goes on after the body of one item
NextItem ==
    IF mode = "gen" THEN pc' = "for" /\ i' = i + 1
    ELSE pc' = "top" /\ i' = i

\* lines 68-75 (154-161): the statistics push after broadcast_news has returned
AfterBroadcast(id) ==
    IF id % StatsInterval = 0
      THEN IF active_connections' # <<>>
             THEN /\ tasks' = active_connections'
                  /\ pc' = "gather_stats"
                  /\ UNCHANGED <<i, stats_counter>>
             ELSE /\ tasks' = <<>>
                  /\ stats_counter' = IF mode = "gen" THEN stats_counter + 1
                                      ELSE stats_counter
                  /\ NextItem
      ELSE /\ tasks' = <<>>
           /\ UNCHANGED stats_counter
           /\ NextItem

news_buffer_append_skipped(buffer, item) == buffer

\* self.news_buffer.append(processed_news)
news_buffer_append(buffer, item) == DequeAppend(buffer, item, BUFFER_MAXLEN)

\* process_news, and for an item it returns: the append and broadcast_news up to
\* its gather (lines 56-65, 145-152).  No await separates these.
Admit(item) ==
    /\ process_news(item, 0)
    /\ UNCHANGED <<active_connections, ws_state>>
    /\ IF processed_news' # NO_ID
         THEN /\ news_buffer' = news_buffer_append(news_buffer, processed_news')
              /\ total_generated' = IF mode = "gen" THEN total_generated + 1
                                    ELSE total_generated
              /\ IF active_connections # <<>>
                   THEN /\ tasks' = active_connections
                        /\ pc' = "gather"
                        /\ UNCHANGED <<i, stats_counter, broadcast_stats,
                                       processing_times>>
                   ELSE /\ AfterBroadcast(processed_news')
                        /\ UNCHANGED <<broadcast_stats, processing_times>>
         ELSE /\ tasks' = <<>>
              /\ NextItem
              /\ UNCHANGED <<news_buffer, total_generated, stats_counter,
                             broadcast_stats, processing_times>>

InputAllowed(item) ==
    /\ calls < MaxCalls
    /\ Accepts(item) \/ rejected_count < MaxRejected

\* line 42: the duration has elapsed; lines 134-138: readline returned nothing and
\* the stream process has ended
LoopEnds ==
    /\ \/ mode = "gen" /\ pc = "top"
       \/ mode = "reader" /\ pc = "readline"
    /\ pc' = "done"
    /\ UNCHANGED <<processorVars, controllerVars, managerVars, memory_mb, news_buffer,
                   mode, i, memory_check_counter, total_generated, stats_counter,
                   news_item, processed_news, tasks, reader_stats, calls, accepted_ids,
                   has_resumed>>
    /\ UNCHANGED extVars

\* lines 42-49: a new tick; wait_for_resume is entered when paused
TickStarts ==
    /\ mode = "gen"
    /\ pc = "top"
    /\ pc' = IF is_paused THEN "wait" ELSE "for"
    /\ i' = 0
    /\ UNCHANGED <<processorVars, controllerVars, managerVars, memory_mb, news_buffer,
                   mode, memory_check_counter, total_generated, stats_counter,
                   news_item, processed_news, tasks, reader_stats, calls, accepted_ids,
                   has_resumed>>
    /\ UNCHANGED extVars

WaitForResumeReturnsPaused ==
    /\ pc = "wait"
    /\ IF is_paused THEN wait_iteration ELSE UNCHANGED <<is_paused, pause_reason>>
    /\ pc' = IF mode = "gen" THEN "for" ELSE "readline"
    /\ UNCHANGED <<processorVars, processing_times, processing_queue, managerVars,
                   memory_mb, news_buffer, mode, i, memory_check_counter,
                   total_generated, stats_counter, news_item, processed_news, tasks,
                   reader_stats, calls, accepted_ids>>
    /\ has_resumed' = (has_resumed \/ (is_paused /\ ~is_paused'))
    /\ UNCHANGED extVars

\* wait_for_resume after one sleep(0.1): re-check, resume and return, or sleep again
WaitForResume ==
    /\ pc = "wait"
    /\ IF is_paused THEN wait_iteration ELSE UNCHANGED <<is_paused, pause_reason>>
    /\ pc' = IF is_paused' THEN "wait"
             ELSE IF mode = "gen" THEN "for" ELSE "readline"
    /\ UNCHANGED <<processorVars, processing_times, processing_queue, managerVars,
                   memory_mb, news_buffer, mode, i, memory_check_counter,
                   total_generated, stats_counter, news_item, processed_news, tasks,
                   reader_stats, calls, accepted_ids>>
    /\ has_resumed' = (has_resumed \/ (is_paused /\ ~is_paused'))
    /\ UNCHANGED extVars

\* lines 51-54: the for loop is over, or is left because the controller is paused
TickItemsDone ==
    /\ mode = "gen"
    /\ pc = "for"
    /\ i >= NewsPerSecond \/ is_paused
    /\ pc' = "memcheck"
    /\ UNCHANGED <<processorVars, controllerVars, managerVars, memory_mb, news_buffer,
                   mode, i, memory_check_counter, total_generated, stats_counter,
                   news_item, processed_news, tasks, reader_stats, calls, accepted_ids,
                   has_resumed>>
    /\ UNCHANGED extVars

\* lines 51-65: one item of the tick
TickItem ==
    /\ mode = "gen"
    /\ pc = "for"
    /\ i < NewsPerSecond /\ ~is_paused
    /\ \E item \in LoopItems : InputAllowed(item) /\ Admit(item)
    /\ UNCHANGED <<is_paused, pause_reason, processing_queue, memory_mb, mode,
                   memory_check_counter, reader_stats, has_resumed>>
    /\ UNCHANGED extVars

\* broadcast_news from its gather on (lines 59-72), then the statistics check
GatherNews ==
    /\ pc = "gather"
    /\ CountResults(tasks)
    /\ processing_times' =
          record_broadcast_time(processing_times, BroadcastTimeMs(tasks))
    /\ UNCHANGED <<active_connections, ws_state>>
    /\ AfterBroadcast(processed_news)
    /\ UNCHANGED <<processorVars, is_paused, pause_reason, processing_queue, memory_mb,
                   news_buffer, mode, memory_check_counter, total_generated,
                   news_item, processed_news, reader_stats, calls, accepted_ids,
                   has_resumed>>
    /\ UNCHANGED extVars

\* broadcast_statistics from its gather on (lines 90-94)
GatherStats ==
    /\ pc = "gather_stats"
    /\ CountResults(tasks)
    /\ tasks' = <<>>
    /\ stats_counter' = IF mode = "gen" THEN stats_counter + 1 ELSE stats_counter
    /\ NextItem
    /\ UNCHANGED <<processorVars, controllerVars, active_connections, ws_state,
                   memory_mb, news_buffer, mode, memory_check_counter,
                   total_generated, news_item, processed_news, reader_stats, calls,
                   accepted_ids,
                   has_resumed>>
    /\ UNCHANGED extVars

\* lines 84-96: the periodic memory check, then the pacing sleep
MemoryCheck ==
    /\ mode = "gen"
    /\ pc = "memcheck"
    /\ memory_check_counter' = memory_check_counter + 1
    /\ IF (memory_check_counter + 1) % MemoryCheckInterval = 0 /\ check_memory_usage
         THEN pause_processing(MEMORY_REASON)
         ELSE UNCHANGED <<is_paused, pause_reason>>
    /\ pc' = "top"
    /\ UNCHANGED <<processorVars, processing_times, processing_queue, managerVars,
                   memory_mb, news_buffer, mode, i, total_generated, stats_counter,
                   news_item, processed_news, tasks, reader_stats, calls, accepted_ids,
                   has_resumed>>
    /\ UNCHANGED extVars

\* SafeStreamReader.read_line_safe, lines 88-94: the backpressure gate
ReadLineSafeGate ==
    /\ mode = "reader"
    /\ pc = "top"
    /\ LET sp == should_pause_processing IN
          IF sp.pause
            THEN /\ pause_processing(sp.reason)
                 /\ pc' = "wait"
            ELSE /\ UNCHANGED <<is_paused, pause_reason>>
                 /\ pc' = "readline"
    /\ UNCHANGED <<processorVars, processing_times, processing_queue, managerVars,
                   memory_mb, news_buffer, mode, i, memory_check_counter,
                   total_generated, stats_counter, news_item, processed_news, tasks,
                   reader_stats, calls, accepted_ids,
                   has_resumed>>
    /\ UNCHANGED extVars

\* read_line_safe lines 97-135 returning None for a line it refuses (too long, not
\* UTF-8, not JSON); safe_read_news_stream goes on with the next line
ReadBadLine ==
    /\ mode = "reader"
    /\ pc = "readline"
    /\ reader_stats.errors_count < MaxErrors
    /\ reader_stats' = [reader_stats EXCEPT !.errors_count = @ + 1]
    /\ pc' = "top"
    /\ UNCHANGED <<processorVars, controllerVars, managerVars, memory_mb, news_buffer,
                   mode, i, memory_check_counter, total_generated, stats_counter,
                   news_item, processed_news, tasks, calls, accepted_ids,
                   has_resumed>>
    /\ UNCHANGED extVars

\* read_line_safe returning a line that does not start with '{': counted, not
\* processed (line 142)
ReadPlainLine ==
    /\ mode = "reader"
    /\ pc = "readline"
    /\ reader_stats.lines_processed - calls < MaxErrors
    /\ reader_stats' = [reader_stats EXCEPT !.lines_processed = @ + 1]
    /\ pc' = "top"
    /\ UNCHANGED <<processorVars, controllerVars, managerVars, memory_mb, news_buffer,
                   mode, i, memory_check_counter, total_generated, stats_counter,
                   news_item, processed_news, tasks, calls, accepted_ids,
                   has_resumed>>
    /\ UNCHANGED extVars

\* read_line_safe returning a JSON object line, and the loop body for it
ReadItemLine ==
    /\ mode = "reader"
    /\ pc = "readline"
    /\ reader_stats' = [reader_stats EXCEPT !.lines_processed = @ + 1]
    /\ \E item \in LoopItems : InputAllowed(item) /\ Admit(item)
    /\ UNCHANGED <<is_paused, pause_reason, processing_queue, memory_mb, mode,
                   memory_check_counter, has_resumed>>
    /\ UNCHANGED extVars

Connects ==
    /\ \E s \in Subscribers : HandleWebsocketConnect(s)
    /\ UNCHANGED <<processorVars, controllerVars, memory_mb, news_buffer, loopVars,
                   calls, accepted_ids,
                   has_resumed>>
    /\ UNCHANGED extVars

Disconnects ==
    /\ \E s \in Subscribers : HandleWebsocketDisconnect(s)
    /\ UNCHANGED <<processorVars, controllerVars, memory_mb, news_buffer, loopVars,
                   calls, accepted_ids,
                   has_resumed>>
    /\ UNCHANGED extVars

MemoryMoves ==
    /\ pc # "done"
    /\ \E m \in MemorySamples : m # memory_mb /\ memory_mb' = m
    /\ UNCHANGED <<processorVars, controllerVars, managerVars, news_buffer, loopVars,
                   calls, accepted_ids,
                   has_resumed>>
    /\ UNCHANGED extVars

Init ==
    /\ mode \in {"gen", "reader"}
    /\ InitProcessor /\ InitController
    /\ active_connections = <<>>
    /\ ws_state = [s \in Subscribers |-> IF s \in LoopSubscribers THEN "new" ELSE "closed"]
    /\ InitRest
    /\ broadcast_stats = [total_sent |-> 0, total_errors |-> 0,
                          backpressure_events |-> 0]
    /\ memory_mb = MAX_MEMORY_MB

Next ==
    \/ TickStarts \/ TickItem \/ TickItemsDone \/ MemoryCheck
    \/ ReadLineSafeGate \/ ReadBadLine \/ ReadPlainLine \/ ReadItemLine
    \/ WaitForResume \/ GatherNews \/ GatherStats \/ LoopEnds
    \/ Connects \/ Disconnects \/ MemoryMoves

Spec == Init /\ [][Next]_vars

\* asyncio resumes a task whose sleep(0.1) has expired
FairSpec == Spec /\ WF_vars(WaitForResume)

-----------------------------------------------------------------------------
(* SpecMain: src/main.py, the variant without validation or backpressure    *)

MAX_BUFFER_SIZE == 50

MainMaxItems == 53

\* NewsProcessor.process_news of main.py: every item is stamped
MainProcessNews(category) ==
    /\ processed_count' = processed_count + 1
    /\ categories_count' = [categories_count EXCEPT ![category] = @ + 1]
    /\ processed_news' = processed_count + 1
    /\ accepted_ids' = accepted_ids
    /\ calls' = calls + 1

MainBufferAppendDropsNewest(buffer, x) ==
    LET b == Append(buffer, x)
    IN IF Len(b) > MAX_BUFFER_SIZE THEN SubSeq(b, 1, Len(b) - 1) ELSE b

\* news_buffer.append(x); if len(news_buffer) > MAX_BUFFER_SIZE: news_buffer.pop(0)
MainBufferAppend(buffer, x) ==
    LET b == Append(buffer, x)
    IN IF Len(b) > MAX_BUFFER_SIZE THEN Tail(b) ELSE b

RECURSIVE Alive(_)
\* the registry without the connections whose send raised
Alive(list) ==
    IF list = <<>> THEN <<>>
    ELSE IF SendFails(Head(list)) THEN Alive(Tail(list))
    ELSE <<Head(list)>> \o Alive(Tail(list))

mainFrame == <<np_processing_times, rejected_count, controllerVars, memory_mb, mode, i,
               memory_check_counter, total_generated, stats_counter, news_item, tasks,
               reader_stats, has_resumed, broadcast_stats>>

\* generate_news_stream, lines 62-68: generate, stamp, append, evict
MainItem ==
    /\ pc = "main_item"
    /\ processed_count < MainMaxItems
    /\ \E c \in Categories : MainProcessNews(c)
    /\ news_buffer' = MainBufferAppend(news_buffer, processed_news')
    /\ pc' = "main_broadcast"
    /\ UNCHANGED <<active_connections, ws_state, mainFrame>>
    /\ UNCHANGED extVars

\* broadcast_news of main.py: send to each connection, then remove those that failed
MainBroadcastNews ==
    /\ pc = "main_broadcast"
    /\ active_connections' = Alive(active_connections)
    /\ pc' = "main_statistics"
    /\ UNCHANGED <<processed_count, categories_count, processed_news, accepted_ids,
                   calls, news_buffer, ws_state, mainFrame>>
    /\ UNCHANGED extVars

\* broadcast_statistics of main.py, then sleep(3)
MainBroadcastStatistics ==
    /\ pc = "main_statistics"
    /\ active_connections' = Alive(active_connections)
    /\ pc' = "main_item"
    /\ UNCHANGED <<processed_count, categories_count, processed_news, accepted_ids,
                   calls, news_buffer, ws_state, mainFrame>>
    /\ UNCHANGED extVars

\* websocket_endpoint, lines 124-132: accept, register, greet
MainConnects ==
    /\ \E s \in Subscribers :
          /\ ws_state[s] = "new"
          /\ ws_state' = [ws_state EXCEPT ![s] = "open"]
          /\ active_connections' = Append(active_connections, s)
    /\ UNCHANGED <<processed_count, categories_count, processed_news, accepted_ids,
                   calls, news_buffer, pc, mainFrame>>
    /\ UNCHANGED extVars

\* the peer goes away; its endpoint task has not yet been resumed
MainPeerCloses ==
    /\ \E s \in Subscribers :
          /\ ws_state[s] = "open"
          /\ ws_state' = [ws_state EXCEPT ![s] = "gone"]
    /\ UNCHANGED <<processed_count, categories_count, processed_news, accepted_ids,
                   calls, news_buffer, pc, active_connections, mainFrame>>
    /\ UNCHANGED extVars

\* websocket_endpoint, lines 138-139: active_connections.remove(websocket), which
\* raises ValueError out of the task when a broadcast has already removed it
MainEndpointDisconnects ==
    /\ \E s \in Subscribers :
          /\ ws_state[s] = "gone"
          /\ ws_state' = [ws_state EXCEPT ![s] = "closed"]
          /\ active_connections' =
                IF InList(active_connections, s) THEN Remove(active_connections, s)
                ELSE active_connections
    /\ UNCHANGED <<processed_count, categories_count, processed_news, accepted_ids,
                   calls, news_buffer, pc, mainFrame>>
    /\ UNCHANGED extVars

MainInit ==
    /\ mode = "main"
    /\ InitProcessor /\ InitController /\ InitManager /\ InitRest
    /\ memory_mb = MAX_MEMORY_MB

MainNext ==
    \/ MainItem \/ MainBroadcastNews \/ MainBroadcastStatistics
    \/ MainConnects \/ MainPeerCloses \/ MainEndpointDisconnects

SpecMain == MainInit /\ [][MainNext]_vars

-----------------------------------------------------------------------------
(* SpecApi: the generator loop with no subscriber, and GET /api/news        *)

\* `[-10:]`
LATEST_NEWS_COUNT == 10

Max(a, b) == IF a > b THEN a ELSE b

Min(a, b) == IF a < b THEN a ELSE b

LastKOldest(list, k) == SubSeq(list, 1, Min(k, Len(list)))

\* list[-k:] for k > 0: from index max(len - k, 0) to the end
LastK(list, k) == SubSeq(list, Max(Len(list) - k, 0) + 1, Len(list))

\* get_latest_news: the "news" entry, and the buffer_size of its "statistics"
GetLatestNews ==
    /\ pc # "done"
    /\ latest_news' = [served |-> TRUE,
                       news |-> LastK(news_buffer, LATEST_NEWS_COUNT),
                       buffer_size |-> Len(news_buffer)]
    /\ UNCHANGED <<processorVars, controllerVars, managerVars, memory_mb, news_buffer,
                   loopVars, calls, accepted_ids, has_resumed, results, delivered,
                   broadcast_buffer, last_broadcast_time, now, disconnected_clients>>

ApiInit ==
    /\ mode = "gen"
    /\ InitProcessor /\ InitController
    /\ active_connections = <<>>
    /\ ws_state = [s \in Subscribers |-> "closed"]
    /\ InitRest
    /\ broadcast_stats = [total_sent |-> 0, total_errors |-> 0,
                          backpressure_events |-> 0]
    /\ memory_mb = MAX_MEMORY_MB

ApiNext ==
    \/ TickStarts \/ TickItem \/ TickItemsDone \/ MemoryCheck \/ LoopEnds
    \/ GetLatestNews

SpecApi == ApiInit /\ [][ApiNext]_vars

-----------------------------------------------------------------------------
(* SpecFan: the generator loop and WebSocketManager.broadcast_news with the *)
(* sends of one asyncio.gather as separate steps, and the connection tasks  *)
(* running in between.  A peer is "open" (reads what is sent), "stalled"    *)
(* (has stopped reading: send_text does not return), or "gone" (has closed: *)
(* send_text raises, and its handle_websocket task has not run yet).        *)

FanSubscribers == {"s1", "s2", "s3"}

\* the peers that stop reading, and the peers that close, in a run
StallingSubscribers == {"s3"}
ClosingSubscribers == {"s2", "s3"}

FanMaxCalls == 3

\* what the generator yields in these runs: a valid item, an item without title
FanItems ==
    { RawItem("t", "s", "AI", "co", TRUE, 500),
      RawItem(ABSENT, "s", "AI", "co", TRUE, 500) }

\* the handle is in the registry as far as connect / disconnect calls go
Registered(s) == ws_state[s] \in {"open", "stalled", "gone"}

Count(list, x) == Cardinality({k \in 1..Len(list) : list[k] = x})

Stalled(ts) == \E k \in 1..Len(ts) : ws_state[ts[k]] = "stalled"

AllPending(ts) == [k \in 1..Len(ts) |-> "pending"]

send_safe_fails_after_failure(k) ==
    IF ws_state[tasks[k]] = "open" /\ \A j \in 1..Len(results) : results[j] # "err"
      THEN "ok" ELSE "err"

\* send_safe for task k of the round: None, or the exception send_text raised
send_safe(k) ==
    IF ws_state[tasks[k]] = "open" THEN "ok" ELSE "err"

DeliverFirst(log, id) == <<id>> \o log

\* what the peer has received once send_text has returned
Deliver(log, id) == Append(log, id)

connect_twice(list, s) == Append(Append(list, s), s)

\* WebSocketManager.connect after accept() has returned: line 28
connect(list, s) == Append(list, s)

FailedIgnoresLast(rs) == Cardinality({k \in 1..(Len(rs) - 1) : rs[k] = "err"})

\* `errors = sum(1 for result in results if isinstance(result, Exception))`
Failed(rs) == Cardinality({k \in 1..Len(rs) : rs[k] = "err"})

fanFrame == <<broadcast_buffer, last_broadcast_time, now, latest_news,
              disconnected_clients>>

\* lines 51-65 of the generator loop, up to the gather of broadcast_news
FanTickItem ==
    /\ mode = "gen"
    /\ pc = "for"
    /\ i < NewsPerSecond /\ ~is_paused
    /\ calls < FanMaxCalls
    /\ \E item \in FanItems : InputAllowed(item) /\ Admit(item)
    /\ results' = IF pc' = "gather" THEN AllPending(tasks') ELSE results
    /\ UNCHANGED <<is_paused, pause_reason, processing_queue, memory_mb, mode,
                   memory_check_counter, reader_stats, has_resumed, delivered,
                   fanFrame>>

\* one send_safe of the round runs to its end
FanSend ==
    /\ pc = "gather"
    /\ \E k \in 1..Len(tasks) :
          /\ results[k] = "pending"
          /\ ws_state[tasks[k]] # "stalled"
          /\ results' = [results EXCEPT ![k] = send_safe(k)]
          /\ delivered' =
                IF send_safe(k) = "ok"
                  THEN [delivered EXCEPT ![tasks[k]] = Deliver(@, processed_news)]
                  ELSE delivered
    /\ UNCHANGED <<processorVars, controllerVars, managerVars, memory_mb, news_buffer,
                   loopVars, calls, accepted_ids, has_resumed, fanFrame>>

\* broadcast_news lines 59-72 once every send has returned, then the statistics
\* check of the loop
FanGatherNews ==
    /\ pc = "gather"
    /\ \A k \in 1..Len(tasks) : results[k] # "pending"
    /\ broadcast_stats' =
          record_round(broadcast_stats, Len(tasks), Failed(results))
    /\ processing_times' =
          record_broadcast_time(processing_times, BroadcastTimeMs(tasks))
    /\ UNCHANGED <<active_connections, ws_state>>
    /\ AfterBroadcast(processed_news)
    /\ UNCHANGED <<processorVars, is_paused, pause_reason, processing_queue, memory_mb,
                   news_buffer, mode, memory_check_counter, total_generated,
                   news_item, processed_news, reader_stats, calls, accepted_ids,
                   has_resumed, results, delivered, fanFrame>>

\* broadcast_statistics of the loop; it returns only if every send returns
FanGatherStats ==
    /\ ~Stalled(tasks)
    /\ GatherStats

\* handle_websocket up to its receive loop; the counters of its greeting round are
\* written only if every send of that round returns
FanConnects ==
    /\ \E s \in FanSubscribers :
          /\ ws_state[s] = "new"
          /\ ws_state' = [ws_state EXCEPT ![s] = "open"]
          /\ active_connections' = connect(active_connections, s)
          /\ IF Stalled(active_connections)
               THEN UNCHANGED broadcast_stats
               ELSE broadcast_stats' =
                      LET ts == active_connections'
                          e == Cardinality({k \in 1..Len(ts) :
                                               ts[k] # s /\ SendFails(ts[k])})
                      IN record_round(broadcast_stats, Len(ts), e)
    /\ UNCHANGED <<processorVars, controllerVars, memory_mb, news_buffer, loopVars,
                   calls, accepted_ids, has_resumed, extVars>>

\* the peer stops reading
FanPeerStalls ==
    /\ \E s \in StallingSubscribers :
          /\ ws_state[s] = "open"
          /\ ws_state' = [ws_state EXCEPT ![s] = "stalled"]
    /\ UNCHANGED <<processorVars, controllerVars, active_connections, broadcast_stats,
                   memory_mb, news_buffer, loopVars, calls, accepted_ids, has_resumed,
                   extVars>>

\* the peer closes the connection
FanPeerCloses ==
    /\ \E s \in ClosingSubscribers :
          /\ ws_state[s] \in {"open", "stalled"}
          /\ ws_state' = [ws_state EXCEPT ![s] = "gone"]
    /\ UNCHANGED <<processorVars, controllerVars, active_connections, broadcast_stats,
                   memory_mb, news_buffer, loopVars, calls, accepted_ids, has_resumed,
                   extVars>>

\* handle_websocket lines 134-138: receive_text raises, disconnect
FanDisconnects ==
    /\ \E s \in FanSubscribers :
          /\ ws_state[s] = "gone"
          /\ ws_state' = [ws_state EXCEPT ![s] = "closed"]
          /\ active_connections' = disconnect(active_connections, s)
    /\ UNCHANGED <<processorVars, controllerVars, broadcast_stats, memory_mb,
                   news_buffer, loopVars, calls, accepted_ids, has_resumed, extVars>>

FanInit ==
    /\ mode = "gen"
    /\ InitProcessor /\ InitController
    /\ active_connections = <<>>
    /\ ws_state = [s \in FanSubscribers |-> "new"]
    /\ broadcast_stats = [total_sent |-> 0, total_errors |-> 0,
                          backpressure_events |-> 0]
    /\ memory_mb = MAX_MEMORY_MB
    /\ InitRest

FanNext ==
    \/ TickStarts \/ FanTickItem \/ TickItemsDone \/ MemoryCheck \/ LoopEnds
    \/ FanSend \/ FanGatherNews \/ FanGatherStats
    \/ FanConnects \/ FanPeerStalls \/ FanPeerCloses \/ FanDisconnects

SpecFan == FanInit /\ [][FanNext]_vars

\* asyncio runs every task that can run: a send whose peer reads or has closed
\* returns, and a gather whose sends have all returned returns
FanFairSpec == SpecFan /\ WF_vars(FanSend) /\ WF_vars(FanGatherNews)

-----------------------------------------------------------------------------
(* SpecReg: WebSocketManager alone, driven by arbitrary calls of connect,   *)
(* disconnect and broadcast_news                                            *)

RegMaxEntries == 3
RegMaxRounds == 2

\* connect(websocket): accept() returns, the handle is appended
RegConnect ==
    /\ Len(active_connections) < RegMaxEntries
    /\ \E s \in Subscribers :
          /\ active_connections' = connect(active_connections, s)
          /\ ws_state' = [ws_state EXCEPT ![s] = "open"]
    /\ UNCHANGED <<processorVars, controllerVars, broadcast_stats, memory_mb,
                   news_buffer, loopVars, calls, accepted_ids, has_resumed, extVars>>

\* disconnect(websocket)
RegDisconnect ==
    /\ \E s \in Subscribers :
          /\ ws_state[s] = "open"
          /\ active_connections' = disconnect(active_connections, s)
          /\ ws_state' = [ws_state EXCEPT ![s] =
                             IF InList(active_connections', s) THEN "open" ELSE "closed"]
    /\ UNCHANGED <<processorVars, controllerVars, broadcast_stats, memory_mb,
                   news_buffer, loopVars, calls, accepted_ids, has_resumed, extVars>>

RECURSIVE DeliverAll(_, _, _)
\* the sends of one round over ts, every peer reading
DeliverAll(d, ts, id) ==
    IF ts = <<>> THEN d
    ELSE DeliverAll([d EXCEPT ![Head(ts)] = Deliver(@, id)], Tail(ts), id)

\* broadcast_news(news_item, controller), a whole round
RegBroadcastNews ==
    /\ processed_news < RegMaxRounds
    /\ processed_news' = processed_news + 1
    /\ IF active_connections = <<>>
         THEN UNCHANGED <<tasks, results, delivered, broadcast_stats, processing_times>>
         ELSE /\ tasks' = active_connections
              /\ results' = [k \in 1..Len(active_connections) |-> "ok"]
              /\ delivered' = DeliverAll(delivered, active_connections, processed_news')
              /\ broadcast_stats' =
                    [broadcast_stats EXCEPT !.total_sent = @ + Len(active_connections)]
              /\ processing_times' =
                    record_broadcast_time(processing_times,
                                          BroadcastTimeMs(active_connections))
    /\ UNCHANGED <<processorVars, is_paused, pause_reason, processing_queue,
                   active_connections, ws_state, memory_mb, news_buffer, mode, pc, i,
                   memory_check_counter, total_generated, stats_counter, news_item,
                   reader_stats, calls, accepted_ids, has_resumed, fanFrame>>

RegInit ==
    /\ mode = "manager"
    /\ InitProcessor /\ InitController /\ InitManager /\ InitRest
    /\ memory_mb = MAX_MEMORY_MB

RegNext == RegConnect \/ RegDisconnect \/ RegBroadcastNews

SpecReg == RegInit /\ [][RegNext]_vars

-----------------------------------------------------------------------------
(* SpecBatch: the batching broadcast of src/main_fixed.py (the same code is *)
(* in src/src/core/server.py): optimized_broadcast_news called once per     *)
(* item at arbitrary times, flush_broadcast_buffer with the sends of its    *)
(* gather as separate steps, and the connection tasks                       *)

\* `len(broadcast_buffer) >= 5`
BATCH_SIZE == 5
\* `current_time - last_broadcast_time > 0.2`, in milliseconds
FLUSH_INTERVAL_MS == 200

\* the clock advances in steps of this many milliseconds, up to BatchMaxTime
TickMs == 100
BatchMaxTime == 400
BatchMaxItems == 6

\* the handles that connect in these runs
BatchSubscribers == {"s1"}

RECURSIVE FlushTasks(_, _)
\* `for connection in active_connections: for news_item in broadcast_buffer:`
FlushTasks(connections, buffer) ==
    IF connections = <<>> THEN <<>>
    ELSE [k \in 1..Len(buffer) |-> <<Head(connections), buffer[k]>>]
         \o FlushTasks(Tail(connections), buffer)

\* send_safe of main_fixed.py for one (connection, item) task
batch_send_safe(task) == IF ws_state[task[1]] = "open" THEN "ok" ELSE "err"

batchFrame == <<rejected_count, categories_count, np_processing_times, controllerVars,
                memory_mb, news_buffer, mode, i, memory_check_counter,
                total_generated, stats_counter, news_item, reader_stats, calls,
                accepted_ids, has_resumed, latest_news, disconnected_clients>>

\* process_news and optimized_broadcast_news for one item, up to the gather of
\* flush_broadcast_buffer.  last_broadcast_time is written here although the code
\* writes it after the flush: it is the time read before the flush, and nothing
\* reads the variable while the flush runs.
BatchEnqueue ==
    /\ pc = "batch_idle"
    /\ processed_count < BatchMaxItems
    /\ processed_count' = processed_count + 1
    /\ processed_news' = processed_count + 1
    /\ LET buffer == Append(broadcast_buffer, processed_count + 1) IN
          IF Len(buffer) >= BATCH_SIZE \/ now - last_broadcast_time > FLUSH_INTERVAL_MS
            THEN /\ last_broadcast_time' = now
                 /\ broadcast_buffer' = buffer
                 /\ IF active_connections = <<>>
                      THEN UNCHANGED <<pc, tasks, results>>
                      ELSE /\ tasks' = FlushTasks(active_connections, buffer)
                           /\ results' = AllPending(tasks')
                           /\ pc' = "batch_flush"
            ELSE /\ broadcast_buffer' = buffer
                 /\ UNCHANGED <<last_broadcast_time, pc, tasks, results>>
    /\ UNCHANGED <<managerVars, delivered, now, batchFrame>>

\* one send_safe of the flush runs to its end
BatchSend ==
    /\ pc = "batch_flush"
    /\ \E k \in 1..Len(tasks) :
          /\ results[k] = "pending"
          /\ results' = [results EXCEPT ![k] = batch_send_safe(tasks[k])]
          /\ delivered' =
                IF batch_send_safe(tasks[k]) = "ok"
                  THEN [delivered EXCEPT ![tasks[k][1]] = Deliver(@, tasks[k][2])]
                  ELSE delivered
    /\ UNCHANGED <<processed_count, processed_news, managerVars, pc, tasks,
                   broadcast_buffer, last_broadcast_time, now, batchFrame>>

\* flush_broadcast_buffer after its gather: counters, broadcast_buffer.clear()
BatchFlushDone ==
    /\ pc = "batch_flush"
    /\ \A k \in 1..Len(tasks) : results[k] # "pending"
    /\ broadcast_stats' =
          [broadcast_stats EXCEPT !.total_sent = @ + (Len(tasks) - Failed(results)),
                                  !.total_errors = @ + Failed(results),
                                  !.batch_count = @ + 1]
    /\ broadcast_buffer' = <<>>
    /\ pc' = "batch_idle"
    /\ UNCHANGED <<processed_count, processed_news, active_connections, ws_state,
                   tasks, results, delivered, last_broadcast_time, now, batchFrame>>

\* time passes
BatchTick ==
    /\ now < BatchMaxTime
    /\ now' = now + TickMs
    /\ UNCHANGED <<processed_count, processed_news, managerVars, pc, tasks, results,
                   delivered, broadcast_buffer, last_broadcast_time, batchFrame>>

\* websocket_endpoint of main_fixed.py up to its receive loop
BatchConnects ==
    /\ \E s \in BatchSubscribers : HandleWebsocketConnect(s)
    /\ UNCHANGED <<processed_count, processed_news, pc, tasks, results, delivered,
                   broadcast_buffer, last_broadcast_time, now, batchFrame>>

\* the peer closes the connection
BatchPeerCloses ==
    /\ \E s \in BatchSubscribers :
          /\ ws_state[s] = "open"
          /\ ws_state' = [ws_state EXCEPT ![s] = "gone"]
    /\ UNCHANGED <<processed_count, processed_news, active_connections,
                   broadcast_stats, pc, tasks, results, delivered, broadcast_buffer,
                   last_broadcast_time, now, batchFrame>>

\* websocket_endpoint: receive_text raises, active_connections.remove(websocket)
BatchDisconnects ==
    /\ \E s \in BatchSubscribers :
          /\ ws_state[s] = "gone"
          /\ ws_state' = [ws_state EXCEPT ![s] = "closed"]
          /\ active_connections' = Remove(active_connections, s)
    /\ UNCHANGED <<processed_count, processed_news, broadcast_stats, pc, tasks,
                   results, delivered, broadcast_buffer, last_broadcast_time, now,
                   batchFrame>>

BatchInit ==
    /\ mode = "batch"
    /\ InitProcessor /\ InitController
    /\ active_connections = <<>>
    /\ ws_state = [s \in Subscribers |-> IF s \in BatchSubscribers THEN "new"
                                          ELSE "closed"]
    /\ broadcast_stats = [total_sent |-> 0, total_errors |-> 0, batch_count |-> 0]
    /\ memory_mb = MAX_MEMORY_MB
    /\ InitRest

BatchNext ==
    \/ BatchEnqueue \/ BatchSend \/ BatchFlushDone \/ BatchTick
    \/ BatchConnects \/ BatchPeerCloses \/ BatchDisconnects

SpecBatch == BatchInit /\ [][BatchNext]_vars

\* the clock runs, and asyncio runs every send and the flush that waits for them;
\* whether a further item arrives is up to the news source
BatchFairSpec ==
    SpecBatch /\ WF_vars(BatchTick) /\ WF_vars(BatchSend) /\ WF_vars(BatchFlushDone)

-----------------------------------------------------------------------------
(* SpecMainRace: src/main.py with the sends of broadcast_news and           *)
(* broadcast_statistics as separate steps.  pc is "main_send" or            *)
(* "main_stats_send" while a send of the round is awaited: i is the index   *)
(* of the list iterator and tasks holds the connection being sent to.       *)
(* "main_crashed": an exception has left generate_news_stream.              *)

RaceMaxItems == 3

RECURSIVE EvictAll(_, _)
\* `for client in disconnected_clients: active_connections.remove(client)`;
\* list.remove raises ValueError for a client that is not in the list
EvictAll(list, clients) ==
    IF clients = <<>> THEN [list |-> list, raised |-> FALSE]
    ELSE IF ~InList(list, Head(clients)) THEN [list |-> list, raised |-> TRUE]
    ELSE EvictAll(Remove(list, Head(clients)), Tail(clients))

raceFrame == <<np_processing_times, rejected_count, controllerVars, memory_mb, mode,
               memory_check_counter, total_generated, stats_counter, news_item,
               reader_stats, has_resumed, broadcast_stats, results, delivered,
               broadcast_buffer, last_broadcast_time, now, latest_news>>

\* `if active_connections:` and the first send of a round over list, or what
\* follows the round when the list is empty
RaceRoundStarts(list, send_pc, after_pc) ==
    IF list # <<>>
      THEN /\ pc' = send_pc
           /\ i' = 1
           /\ tasks' = <<list[1]>>
           /\ disconnected_clients' = <<>>
      ELSE /\ pc' = after_pc
           /\ UNCHANGED <<i, tasks, disconnected_clients>>

\* generate_news_stream lines 61-77: stamp, append, evict the oldest, and
\* broadcast_news up to its first send (an empty registry: on to the sleep)
RaceItem ==
    /\ pc = "main_item"
    /\ processed_count < RaceMaxItems
    /\ \E c \in Categories : MainProcessNews(c)
    /\ news_buffer' = MainBufferAppend(news_buffer, processed_news')
    /\ RaceRoundStarts(active_connections, "main_send", "main_item")
    /\ UNCHANGED <<active_connections, ws_state, raceFrame>>

\* a send of the round returns or raises; the iterator moves on, and when it is
\* exhausted the failed clients are removed and the loop goes on: from
\* broadcast_news to broadcast_statistics, from broadcast_statistics to sleep(3)
RaceSendReturns ==
    /\ pc \in {"main_send", "main_stats_send"}
    /\ LET failed == IF SendFails(tasks[1])
                       THEN Append(disconnected_clients, tasks[1])
                       ELSE disconnected_clients
           evicted == EvictAll(active_connections, failed)
       IN IF i + 1 <= Len(active_connections)
            THEN /\ i' = i + 1
                 /\ tasks' = <<active_connections[i + 1]>>
                 /\ disconnected_clients' = failed
                 /\ UNCHANGED <<pc, active_connections>>
            ELSE /\ active_connections' = evicted.list
                 /\ IF evicted.raised
                      THEN /\ pc' = "main_crashed"
                           /\ disconnected_clients' = failed
                           /\ UNCHANGED <<i, tasks>>
                      ELSE IF pc = "main_send"
                             THEN RaceRoundStarts(evicted.list, "main_stats_send",
                                                  "main_item")
                             ELSE /\ pc' = "main_item"
                                  /\ disconnected_clients' = failed
                                  /\ UNCHANGED <<i, tasks>>
    /\ UNCHANGED <<processed_count, categories_count, processed_news, accepted_ids,
                   calls, news_buffer, ws_state, raceFrame>>

RaceNext ==
    \/ RaceItem \/ RaceSendReturns
    \/ MainConnects \/ MainPeerCloses \/ MainEndpointDisconnects

SpecMainRace == MainInit /\ [][RaceNext]_vars

-----------------------------------------------------------------------------
(* SpecWindow: the two rolling windows around their capacity.  The          *)
(* processor and the controller start with windows of 0, 99 or 100 samples, *)
(* as after that many accepted items and rounds, and process_news and       *)
(* broadcast_news are called at arbitrary times.                            *)

WinMaxCalls == 3

WinMaxRounds == 2

\* an item process_news returns, one it rejects and one on which it raises
WinItems ==
    { RawItem("t", "s", "AI", "co", TRUE, 500),
      RawItem(ABSENT, "s", "AI", "co", TRUE, 500),
      RawItem("t", "s", UNHASHABLE, "co", TRUE, 500) }

\* a window of n samples, all different: 1 ms, 2 ms, ...
Ramp(n) == [j \in 1..n |-> j]

WindowFills == {0, WINDOW_MAXLEN - 1, WINDOW_MAXLEN}

\* get_statistics line 64: sum / len, or 0 for an empty window
avg_processing_time ==
    IF np_processing_times = <<>> THEN 0
    ELSE SumSeq(np_processing_times) \div Len(np_processing_times)

WinInit ==
    /\ mode = "window"
    /\ \E n \in WindowFills :
          /\ processed_count = n
          /\ categories_count = [c \in Categories |-> IF c = "AI" THEN n ELSE 0]
          /\ np_processing_times = Ramp(n)
    /\ rejected_count = 0
    /\ is_paused = FALSE
    /\ pause_reason = NONE
    /\ processing_times \in {Ramp(n) : n \in WindowFills}
    /\ processing_queue = <<>>
    /\ active_connections \in {<<"s1">>, <<"s2">>}
    /\ ws_state = [s \in Subscribers |->
                     IF InList(active_connections, s) THEN "open" ELSE "new"]
    /\ broadcast_stats = [total_sent |-> 0, total_errors |-> 0,
                          backpressure_events |-> 0]
    /\ memory_mb = 150
    /\ InitRest

\* broadcast_news(news_item, controller) for the item process_news returned last, a
\* whole round with every peer reading
WinBroadcastNews ==
    /\ processed_news # NO_ID
    /\ broadcast_stats.total_sent < WinMaxRounds
    /\ tasks' = active_connections
    /\ results' = [k \in 1..Len(active_connections) |-> "ok"]
    /\ delivered' = DeliverAll(delivered, active_connections, processed_news)
    /\ broadcast_stats' =
          [broadcast_stats EXCEPT !.total_sent = @ + Len(active_connections)]
    /\ processing_times' =
          record_broadcast_time(processing_times, BroadcastTimeMs(active_connections))
    /\ UNCHANGED <<processorVars, is_paused, pause_reason, processing_queue,
                   active_connections, ws_state, memory_mb, news_buffer, mode, pc, i,
                   memory_check_counter, total_generated, stats_counter, news_item,
                   processed_news, reader_stats, calls, accepted_ids, has_resumed,
                   fanFrame>>

\* process_news(news_item), processing_time being what its clock measures
WinProcessNews ==
    /\ calls < WinMaxCalls
    /\ \E item \in WinItems, t \in ProcTimesMs : process_news(item, t)
    /\ UNCHANGED <<controllerVars, managerVars, memory_mb, news_buffer, mode, pc, i,
                   memory_check_counter, total_generated, stats_counter, tasks,
                   reader_stats, has_resumed>>
    /\ UNCHANGED extVars

WinNext == WinProcessNews \/ WinBroadcastNews

SpecWindow == WinInit /\ [][WinNext]_vars

-----------------------------------------------------------------------------
(* Properties                                                               *)

\* a step that calls process_news
Admits == calls' = calls + 1

\* C1: no item is admitted while PAUSED.  Every step of either ingestion loop that
\* calls process_news (and so may append and broadcast) starts and ends with
\* is_paused false, and wait_for_resume is left only with the controller RUNNING.
C1_NoAdmissionWhilePaused ==
    [][ /\ Admits => (~is_paused /\ ~is_paused')
        /\ (pc = "wait" /\ pc' # "wait") => ~is_paused' ]_vars

\* an item was admitted after the loop had waited for a resume
C1_Witness ==
    /\ has_resumed
    /\ ~is_paused
    /\ processed_news # NO_ID
    /\ pc = "gather"

\* C2: while the generator loop is RUNNING, a pause condition that holds pauses the
\* controller before a further item is admitted, each condition alone sufficing.
\* Stated for the two conditions that are the controller's own state (latency window
\* and queue), which cannot change between the loop's gate and the admission: the
\* generator loop admits an item only when neither of them holds.
C2_PausesOnAnyCondition ==
    [][ (mode = "gen" /\ Admits)
        => (~check_processing_delay /\ ~queue_nearly_full) ]_vars

\* C3: when the ingestion loop's memory check finds memory above the ceiling while
\* RUNNING, the controller becomes PAUSED with the memory reason.
C3_MemoryPauseReason ==
    [][ /\ ( /\ memory_check_counter' # memory_check_counter
             /\ memory_check_counter' % MemoryCheckInterval = 0
             /\ memory_mb > MAX_MEMORY_MB
             /\ ~is_paused )
           => (is_paused' /\ pause_reason' = MEMORY_REASON)
        /\ ( /\ mode = "reader" /\ pc = "top" /\ pc' \in {"wait", "readline"}
             /\ memory_mb > MAX_MEMORY_MB
             /\ ~is_paused )
           => (is_paused' /\ pause_reason' = MEMORY_REASON /\ pc' = "wait") ]_vars

\* the generator loop has just paused on its memory check
C3_Witness ==
    /\ mode = "gen"
    /\ pc = "top"
    /\ memory_check_counter > 0
    /\ is_paused
    /\ pause_reason = MEMORY_REASON

\* C4: the controller leaves PAUSED only at a re-check where memory, latency and
\* queue conditions are all false; at a re-check where one holds, wait_for_resume
\* stays in its loop and the controller stays PAUSED.
C4_ResumeOnlyWhenAllClear ==
    [][ /\ (is_paused /\ ~is_paused')
           => ( /\ ~check_memory_usage
                /\ ~check_processing_delay
                /\ ~queue_nearly_full
                /\ pc = "wait" )
        /\ (pc = "wait" /\ is_paused /\ should_pause_processing.pause)
           => (pc' = "wait" /\ is_paused') ]_vars

\* wait_for_resume has resumed the generator loop, the latency window holding samples
C4_Witness ==
    /\ mode = "gen"
    /\ has_resumed
    /\ ~is_paused
    /\ pc = "for"
    /\ Len(processing_times) > 0

\* C5: wait_for_resume does not wait forever once all three conditions stay false:
\* the loop is never from some point on inside wait_for_resume with every condition
\* false; and when wait_for_resume returns, is_paused is false and pause_reason null.
C5_EventuallyResumes ==
    /\ []<>(pc # "wait" \/ should_pause_processing.pause)
    /\ [][ (pc = "wait" /\ pc' # "wait")
           => (~is_paused' /\ pause_reason' = NONE) ]_vars

\* the line reader has come back from wait_for_resume
C5_Witness ==
    /\ mode = "reader"
    /\ has_resumed
    /\ pc = "readline"
    /\ ~is_paused
    /\ pause_reason = NONE

\* C6: pause_reason is non-null exactly when is_paused is true.
C6_ReasonIffPaused == (pause_reason # NONE) <=> is_paused

\* paused for a second time, the latency window being non-empty
C6_Witness ==
    /\ mode = "controller"
    /\ is_paused
    /\ pause_reason = QUEUE_REASON
    /\ Len(processing_times) = 2

\* C7: the processing_ids of the items process_news returns are 1, 2, 3, ... in
\* acceptance order, whatever calls came in between.
C7_GapFreeIds == \A k \in 1..Len(accepted_ids) : accepted_ids[k] = k

\* the case C8 is about: a field missing or empty, or the serialized item too large
Malformed(item) ==
    \/ MissingFields(item) # {}
    \/ item.serializable /\ item.json_size > MAX_JSON_SIZE

\* C8: an item with a required field missing or empty, or larger than 100 KiB, is
\* rejected: rejected_count goes up by exactly one, no item is returned, and the loop
\* neither appends to the history buffer nor starts a broadcast round.
C8_MalformedRejected ==
    [][ (Admits /\ Malformed(news_item'))
        => ( /\ rejected_count' = rejected_count + 1
             /\ processed_news' = NO_ID
             /\ news_buffer' = news_buffer
             /\ tasks' = <<>>
             /\ pc' \notin {"gather", "gather_stats"}
             /\ broadcast_stats' = broadcast_stats
             /\ processing_times' = processing_times ) ]_vars

\* an item with two fields missing was rejected while a subscriber was registered
C8_Witness ==
    /\ mode \in {"gen", "reader"}
    /\ Cardinality(MissingFields(news_item)) = 2
    /\ rejected_count = 1
    /\ processed_news = NO_ID
    /\ active_connections # <<>>
    /\ Len(news_buffer) > 0

\* C9: a process_news call that rejects changes the rejection counter only: the
\* accepted counter, the category counts and the processing-time window stay.
C9_RejectionFrame ==
    [][ (Admits /\ processed_news' = NO_ID)
        => ( /\ processed_count' = processed_count
             /\ categories_count' = categories_count
             /\ np_processing_times' = np_processing_times ) ]_vars

\* C10: the history buffer never holds more than N items, and holds exactly the last
\* min(N, n) of the n items appended so far, oldest first (FIFO eviction).
C10_BufferHoldsLastN ==
    /\ Len(news_buffer) <= MAX_BUFFER_SIZE
    /\ Len(news_buffer) = Min(processed_count, MAX_BUFFER_SIZE)
    /\ \A k \in 1..Len(news_buffer) :
          news_buffer[k] = processed_count - Len(news_buffer) + k

\* N + 3 items were appended: the buffer is full and starts at the fourth
C10_Witness ==
    /\ mode = "main"
    /\ processed_count = MAX_BUFFER_SIZE + 3
    /\ Len(news_buffer) = MAX_BUFFER_SIZE
    /\ Head(news_buffer) = 4
    /\ news_buffer[MAX_BUFFER_SIZE] = MAX_BUFFER_SIZE + 3

\* C11: the recent-items read returns the most recent min(10, size) buffered items
\* in acceptance order -- the response is the stretch of the accepted ids that ends
\* at the size the buffer had when it was read -- and the read leaves the buffer as
\* it was.
C11_LatestNewsIsTail ==
    /\ [](latest_news.served =>
            LET n == latest_news.buffer_size
                m == Min(LATEST_NEWS_COUNT, n)
            IN /\ n <= Len(accepted_ids)
               /\ Len(latest_news.news) = m
               /\ latest_news.news = SubSeq(accepted_ids, n - m + 1, n))
    /\ [][ latest_news' # latest_news => news_buffer' = news_buffer ]_vars

\* a read of a buffer of eleven items answered with the second to the eleventh
C11_Witness ==
    /\ latest_news.served
    /\ latest_news.buffer_size = LATEST_NEWS_COUNT + 1
    /\ Len(latest_news.news) = LATEST_NEWS_COUNT
    /\ Head(latest_news.news) = accepted_ids[2]

Last(list) == list[Len(list)]

\* the gather of a broadcast_news round returns
RoundEnds == pc = "gather" /\ pc' # "gather"

\* a broadcast_news round starts: its tasks are created
RoundStarts == pc # "gather" /\ pc' = "gather"

\* C12: when a round of broadcast_news ends, every subscriber of the round whose
\* peer is reading has received the round's item, whatever the other sends did, and
\* the loop goes on (to the next item or to its statistics push): a failed send
\* neither stops the other sends nor ends the loop.
C12_BroadcastIsolation ==
    [][ RoundEnds =>
          /\ \A k \in 1..Len(tasks) :
                ws_state[tasks[k]] = "open" =>
                   /\ delivered[tasks[k]] # <<>>
                   /\ Last(delivered[tasks[k]]) = processed_news
          /\ pc' \in {"for", "gather_stats"} ]_vars

\* three subscribers, the sends of the round have returned: one failed, two arrived
C12_Witness ==
    /\ mode = "gen" /\ pc = "gather"
    /\ Len(tasks) = 3
    /\ \A k \in 1..3 : results[k] # "pending"
    /\ Failed(results) = 1
    /\ \E k \in 1..3 : results[k] = "err" /\ ws_state[tasks[k]] = "gone"
    /\ \A k \in 1..3 : results[k] = "ok" => Last(delivered[tasks[k]]) = processed_news

\* C13: a subscriber whose send failed in a round is not in the registry when the
\* round ends.
C13_FailFastEviction ==
    [][ RoundEnds =>
          \A k \in 1..Len(tasks) :
             results[k] = "err" => ~InList(active_connections', tasks[k]) ]_vars

\* C14: however connect and disconnect are called, a handle has at most one entry in
\* the registry, and a round makes at most one attempt to it.
C14_RegistrationIdempotent ==
    \A s \in Subscribers :
       /\ Count(active_connections, s) <= 1
       /\ Count(tasks, s) <= 1

\* C15: every broadcast round that has started ends.
C15_RoundCompletes == (pc = "gather") ~> (pc # "gather")

\* C16: what each subscriber has received is in strictly increasing processing_id
\* order.
C16_DeliveryInIdOrder ==
    \A s \in DOMAIN delivered :
       \A j, k \in 1..Len(delivered[s]) :
          j < k => delivered[s][j] < delivered[s][k]

\* one subscriber has received three items, another joined later and got the last two
C16_Witness ==
    /\ mode = "gen"
    /\ \E s, t \in FanSubscribers :
          /\ Len(delivered[s]) = 3
          /\ Len(delivered[t]) = 2
          /\ Last(delivered[s]) = Last(delivered[t])

Succeeded(rs) == Cardinality({k \in 1..Len(rs) : rs[k] = "ok"})

\* C19: a round attempts one send per handle registered when it starts; when it ends
\* succeeded + failed = attempted, total_sent has grown by succeeded and total_errors
\* by failed.
C19_DeliveryReport ==
    [][ /\ RoundStarts =>
             /\ Len(tasks') = Cardinality({s \in DOMAIN ws_state : Registered(s)})
             /\ Len(results') = Len(tasks')
        /\ RoundEnds =>
             /\ Succeeded(results) + Failed(results) = Len(tasks)
             /\ broadcast_stats'.total_sent
                   = broadcast_stats.total_sent + Succeeded(results)
             /\ broadcast_stats'.total_errors
                   = broadcast_stats.total_errors + Failed(results) ]_vars

\* the first round, of two attempts, has ended: one success and one failure are
\* counted on top of the three sends of the two greetings
C19_Witness ==
    /\ mode = "gen" /\ pc = "for"
    /\ Len(processing_times) = 1
    /\ Len(results) = 2
    /\ Succeeded(results) = 1 /\ Failed(results) = 1
    /\ broadcast_stats.total_errors = 1
    /\ broadcast_stats.total_sent = 4

\* C20: every item the loop accepts while a subscriber is registered (its connect
\* has returned, its disconnect has not been called) starts a round with exactly
\* one send to that subscriber.
C20_OneAttemptPerRound ==
    [][ (Admits /\ processed_news' # NO_ID) =>
          \A s \in DOMAIN ws_state :
             Registered(s) =>
                /\ pc' = "gather"
                /\ Count(tasks', s) = 1
                /\ \A k \in 1..Len(tasks') : tasks'[k] = s => results'[k] = "pending" ]_vars

\* the third accepted item is being sent to a subscriber that has received the two
\* before it
C20_Witness ==
    /\ mode = "gen" /\ pc = "gather"
    /\ processed_news = 3
    /\ \E k \in 1..Len(tasks) :
          /\ results[k] = "pending"
          /\ delivered[tasks[k]] = <<1, 2>>

\* C17: in batching mode each subscriber receives the items in the order they were
\* enqueued, that is in increasing processing_id order.
C17_BatchKeepsOrder ==
    mode = "batch" =>
       \A s \in DOMAIN delivered :
          \A j, k \in 1..Len(delivered[s]) :
             j < k => delivered[s][j] < delivered[s][k]

\* C18: an item that is queued while a subscriber is connected, and whose flush is
\* due (five items queued, or more than 200 ms since the last flush), is flushed.
C18_QueuedItemsAreFlushed ==
    ( /\ broadcast_buffer # <<>>
      /\ active_connections # <<>>
      /\ \/ Len(broadcast_buffer) >= BATCH_SIZE
         \/ now - last_broadcast_time > FLUSH_INTERVAL_MS )
    ~> (broadcast_buffer = <<>> \/ active_connections = <<>>)

\* C21: while a broadcast round is between taking its subscriber list and having
\* collected every outcome, no connect or disconnect changes active_connections.
C21_NoRegistryChangeDuringRound ==
    [][ (pc = "gather" /\ pc' = "gather")
        => active_connections' = active_connections ]_vars

\* C22: in main.py no broadcast round raises, whatever the connection tasks do to
\* active_connections while it runs: generate_news_stream is never left through its
\* exception handler.
C22_MainRoundNeverRaises == pc # "main_crashed"

\* the three conditions, read off the controller's state
MemoryHigh == memory_mb # MEMORY_READ_FAILS /\ memory_mb > MAX_MEMORY_MB

LatencyHigh ==
    /\ Len(processing_times) >= MIN_DELAY_SAMPLES
    /\ SumSeq(processing_times) > PROCESSING_DELAY_THRESHOLD_MS * Len(processing_times)

QueueHigh == Len(processing_queue) * 10 > MAX_QUEUE_SIZE * 8

\* a step in which the controller goes from RUNNING to PAUSED
Pauses == ~is_paused /\ is_paused'

\* C23: should_pause_processing answers with the reason of the first condition that
\* holds in the order memory, latency, queue, and with (false, "") exactly when none
\* holds; a gate that pauses records that reason.
C23_FixedPriorityOrder ==
    /\ [](LET sp == should_pause_processing IN
            /\ MemoryHigh => sp = [pause |-> TRUE, reason |-> MEMORY_REASON]
            /\ (~MemoryHigh /\ LatencyHigh)
                  => sp = [pause |-> TRUE, reason |-> DELAY_REASON]
            /\ (~MemoryHigh /\ ~LatencyHigh /\ QueueHigh)
                  => sp = [pause |-> TRUE, reason |-> QUEUE_REASON]
            /\ ~sp.pause <=> (~MemoryHigh /\ ~LatencyHigh /\ ~QueueHigh)
            /\ ~sp.pause => sp.reason = "")
    /\ [][ Pauses =>
             pause_reason' = IF MemoryHigh THEN MEMORY_REASON
                             ELSE IF LatencyHigh THEN DELAY_REASON
                             ELSE QUEUE_REASON ]_vars

\* paused for memory although the latency and the queue conditions hold as well
C23_Witness ==
    /\ is_paused /\ pause_reason = MEMORY_REASON
    /\ MemoryHigh /\ LatencyHigh /\ QueueHigh

\* C24: with memory not high, should_pause_processing answers (true, "processing
\* delay too high") exactly when the window holds at least 10 samples whose average
\* exceeds 100 ms; with fewer than 10 samples the latency condition never triggers.
C24_LatencyCondition ==
    /\ [](check_processing_delay <=>
            (/\ Len(processing_times) >= 10
             /\ SumSeq(processing_times) > 100 * Len(processing_times)))
    /\ [](~MemoryHigh =>
            (should_pause_processing = [pause |-> TRUE, reason |-> DELAY_REASON]
               <=> (/\ Len(processing_times) >= 10
                    /\ SumSeq(processing_times) > 100 * Len(processing_times))))
    /\ [][ (Pauses /\ Len(processing_times) < 10) => pause_reason' # DELAY_REASON ]_vars

\* ten samples of 150 ms, memory at the ceiling but not above it: paused for latency
C24_Witness ==
    /\ is_paused /\ pause_reason = DELAY_REASON
    /\ processing_times = Window(10, 10)
    /\ memory_mb = MAX_MEMORY_MB

\* C25: when the memory sample cannot be read the memory condition is false, and
\* should_pause_processing still pauses for latency or for the queue: it pauses
\* exactly when one of the two holds, with that condition's reason.
C25_UnreadableMemoryDoesNotTrigger ==
    /\ [](memory_mb = MEMORY_READ_FAILS =>
            /\ ~check_memory_usage
            /\ should_pause_processing.pause <=> (LatencyHigh \/ QueueHigh)
            /\ should_pause_processing.reason # MEMORY_REASON)
    /\ [][ (Pauses /\ memory_mb = MEMORY_READ_FAILS) =>
             pause_reason' = IF LatencyHigh THEN DELAY_REASON ELSE QUEUE_REASON ]_vars

\* the memory read fails, the window is calm and the queue is nearly full: paused
\* for the queue
C25_Witness ==
    /\ memory_mb = MEMORY_READ_FAILS
    /\ is_paused /\ pause_reason = QUEUE_REASON
    /\ ~LatencyHigh /\ QueueHigh

TickAdmitted == i + (IF pc \in {"gather", "gather_stats"} THEN 1 ELSE 0)

\* the ticks begun so far: memory_check_counter counts the finished ones
TicksStarted == memory_check_counter + (IF pc \in {"top", "done"} THEN 0 ELSE 1)

\* C27: a tick of the generator loop admits at most news_per_second items.  Every
\* admission is counted against the running tick, the count goes back to zero only
\* when a tick starts and nothing else changes it, so no tick inherits a deficit of
\* an earlier one; in total at most news_per_second items per tick begun.
C27_NoCatchUpBurst ==
    /\ [](mode = "gen" => /\ TickAdmitted <= NewsPerSecond
                          /\ calls <= NewsPerSecond * TicksStarted)
    /\ [][ mode = "gen" =>
             /\ Admits => (TickAdmitted < NewsPerSecond
                            /\ TickAdmitted' = TickAdmitted + 1)
             /\ TickAdmitted' # TickAdmitted
                   => (Admits \/ (pc = "top" /\ TickAdmitted' = 0)) ]_vars

\* after a pause and a resume, a tick has admitted news_per_second items and its
\* for loop is over
C27_Witness ==
    /\ mode = "gen" /\ has_resumed
    /\ pc = "for" /\ i = NewsPerSecond
    /\ memory_check_counter >= MemoryCheckInterval
    /\ calls = NewsPerSecond * (memory_check_counter + 1)

\* C28: broadcast_stats['backpressure_events'] counts the transitions from RUNNING
\* to PAUSED: it starts at zero, every step that pauses the controller adds one to
\* it, and no other step changes it.
C28_BackpressureEventsCountPauses ==
    [][ IF Pauses
          THEN broadcast_stats'.backpressure_events
                 = broadcast_stats.backpressure_events + 1
          ELSE broadcast_stats'.backpressure_events
                 = broadcast_stats.backpressure_events ]_vars

\* C29: a subscriber whose handle_websocket has ended is not in active_connections
\* and stays out of it for good, and disconnect of a handle that is not registered
\* leaves the registry as it is.
C29_EndedSubscriberStaysOut ==
    /\ [](\A s \in FanSubscribers :
            /\ ws_state[s] = "closed" => ~InList(active_connections, s)
            /\ ~InList(active_connections, s)
                  => disconnect(active_connections, s) = active_connections)
    /\ [][ \A s \in FanSubscribers :
              ws_state[s] = "closed"
                => (ws_state'[s] = "closed" /\ ~InList(active_connections', s)) ]_vars

\* s2 has received an item and its handle_websocket has ended; a later round runs
\* for the subscribers that remain, without it
C29_Witness ==
    /\ ws_state["s2"] = "closed" /\ delivered["s2"] # <<>>
    /\ pc = "gather" /\ tasks # <<>> /\ ~InList(tasks, "s2")
    /\ disconnect(active_connections, "s2") = active_connections

\* C30: an accepted item is appended to the history buffer in the step that accepts
\* it, before its broadcast round: when the round starts and as long as it runs the
\* item is the newest element of news_buffer, and whatever a subscriber has been
\* sent is in the buffer.
C30_AppendBeforeBroadcast ==
    /\ [](pc = "gather" => (news_buffer # <<>> /\ Last(news_buffer) = processed_news))
    /\ [](\A s \in FanSubscribers : \A k \in 1..Len(delivered[s]) :
            InList(news_buffer, delivered[s][k]))
    /\ [][ /\ (Admits /\ processed_news' # NO_ID)
               => (news_buffer' # <<>> /\ Last(news_buffer') = processed_news')
           /\ RoundStarts
               => (Admits /\ Last(news_buffer') = processed_news'
                   /\ Len(news_buffer') = Len(news_buffer) + 1) ]_vars

\* the round of the second accepted item runs: the buffer holds two items, the
\* newest is the one being sent, and a subscriber has already received it
C30_Witness ==
    /\ pc = "gather" /\ Len(news_buffer) = 2
    /\ Last(news_buffer) = processed_news
    /\ \E s \in FanSubscribers :
          delivered[s] # <<>> /\ Last(delivered[s]) = processed_news

\* C31: a broadcast_news round over a non-empty registry appends exactly one sample
\* to processing_times when its gather returns, and nothing else touches the window;
\* broadcast_news for an item accepted with an empty registry leaves the window and
\* the counters as they are.
C31_OneSamplePerRound ==
    [][ /\ RoundEnds => /\ tasks # <<>>
                        /\ processing_times'
                             = Append(processing_times, BroadcastTimeMs(tasks))
        /\ (processing_times' # processing_times) => RoundEnds
        /\ (Admits /\ processed_news' # NO_ID /\ active_connections = <<>>)
              => /\ processing_times' = processing_times
                 /\ broadcast_stats' = broadcast_stats
                 /\ pc' # "gather" ]_vars

\* two items accepted, the first with nobody registered and the second with a
\* subscriber: one sample in the window
C31_Witness ==
    /\ Len(news_buffer) = 2 /\ pc \notin {"gather", "gather_stats"}
    /\ Len(processing_times) = 1
    /\ results # <<>>

\* w2 is w after one append: one sample longer, capped at 100, and holding the
\* samples of w that fit before the new one, in their order
KeepsMostRecent(w, w2) ==
    /\ Len(w2) = Min(Len(w) + 1, 100)
    /\ \A k \in 1..(Len(w2) - 1) : w2[k] = w[Len(w) - (Len(w2) - 1) + k]

\* C32: neither rolling window ever holds more than 100 samples; an append to a
\* full window drops the oldest sample and keeps the others in order, so the window
\* is always the most recent samples; the average reported for an empty window is 0.
C32_WindowsKeepLatestHundred ==
    /\ [](/\ Len(np_processing_times) <= 100
          /\ Len(processing_times) <= 100
          /\ np_processing_times = <<>> => avg_processing_time = 0)
    /\ [][ /\ IF Admits /\ processed_news' # NO_ID
                THEN KeepsMostRecent(np_processing_times, np_processing_times')
                ELSE np_processing_times' = np_processing_times
           /\ IF broadcast_stats'.total_sent # broadcast_stats.total_sent
                THEN /\ KeepsMostRecent(processing_times, processing_times')
                     /\ Last(processing_times') = BroadcastTimeMs(tasks')
                ELSE processing_times' = processing_times ]_vars

\* both windows were full and have each taken two more samples: 100 samples, the
\* two oldest gone
C32_Witness ==
    /\ Len(np_processing_times) = 100 /\ np_processing_times[1] = 3
    /\ Len(accepted_ids) = 2
    /\ Len(processing_times) = 100 /\ processing_times[1] = 3
    /\ processing_times[99] = processing_times[100]

\* C33: a loop waiting in wait_for_resume gets out of it unless memory is above the
\* ceiling again and again: once memory stays below the ceiling, the pause ends,
\* whatever its reason and whatever the latency window holds.
C33_PauseEndsOnceMemoryIsLow == (pc = "wait") ~> (pc # "wait" \/ MemoryHigh)

\* C34: nothing in either ingestion loop, the processor, the fan-out or the
\* connection tasks puts into processing_queue: it is empty in every reachable
\* state, the queue condition is false, and no pause carries the queue reason.
C34_AdmissionQueueStaysEmpty ==
    /\ processing_queue = <<>>
    /\ ~queue_nearly_full
    /\ should_pause_processing.reason # QUEUE_REASON
    /\ pause_reason # QUEUE_REASON

\* the line reader has accepted items, broadcast them and paused: the queue is
\* still empty
C34_Witness ==
    /\ mode = "reader" /\ pc = "wait" /\ is_paused
    /\ Len(accepted_ids) >= 2 /\ processing_times # <<>>
    /\ processing_queue = <<>>

\* C35: every process_news call adds one to exactly one of processed_count and
\* rejected_count: the two sum to the number of calls, processed_count is the
\* number of items returned, and the category counts sum to processed_count.
C35_EachCallCountedOnce ==
    /\ processed_count + rejected_count = calls
    /\ processed_count = Len(accepted_ids)
    /\ categories_count["AI"] + categories_count["Cloud"] = processed_count

\* C36: pause_processing on a PAUSED controller and resume_processing on a RUNNING
\* one change nothing, so the reason of a pause is the one of the call that started
\* it; wait_for_resume on a RUNNING controller returns with the state as it was.
C36_PauseResumeIdempotent ==
    [][ /\ (is_paused /\ is_paused') => pause_reason' = pause_reason
        /\ (~is_paused /\ ~is_paused') => pause_reason' = pause_reason
        /\ \A reason \in Reasons :
              (is_paused /\ pause_processing(reason))
                => UNCHANGED <<is_paused, pause_reason>>
        /\ (~is_paused /\ resume_processing) => UNCHANGED <<is_paused, pause_reason>>
        /\ (~is_paused /\ CtlWaitForResume) => UNCHANGED vars ]_vars

\* paused for the queue reason while memory is above the ceiling and the window is
\* slow: later pause calls with the other reasons have not replaced it
C36_Witness ==
    /\ is_paused /\ pause_reason = QUEUE_REASON
    /\ check_memory_usage /\ check_processing_delay

\* C37: whenever no optimized_broadcast_news call is in progress, broadcast_buffer
\* holds fewer than 5 items, whoever is registered.
C37_PendingBatchIsBounded ==
    pc = "batch_idle" => Len(broadcast_buffer) < BATCH_SIZE

\* the delivery attempts the counters account for
Attempted == broadcast_stats.total_sent + broadcast_stats.total_errors

\* the gather of a broadcast_statistics round of the loop returns
StatsRoundEnds == pc = "gather_stats" /\ pc' # "gather_stats"

\* a connection task registers its handle and, no peer stalling its sends, completes
\* its greeting broadcast_statistics round
GreetingRoundEnds ==
    Len(active_connections') > Len(active_connections) /\ ~Stalled(active_connections)

\* C38: however the rounds of the loop and of the connection tasks interleave, each
\* completed round adds its number of sends to total_sent + total_errors, nothing
\* else changes the two counters, and neither ever decreases: the sum is the number
\* of delivery attempts of all completed rounds.
C38_NoLostCounterUpdate ==
    [][ /\ broadcast_stats'.total_sent >= broadcast_stats.total_sent
        /\ broadcast_stats'.total_errors >= broadcast_stats.total_errors
        /\ Attempted' - Attempted =
              IF RoundEnds \/ StatsRoundEnds THEN Len(tasks)
              ELSE IF GreetingRoundEnds THEN Len(active_connections')
              ELSE 0 ]_vars

\* a connection task has completed its greeting round while a broadcast_news round
\* of the loop is waiting for its sends, and both counters have been written
C38_Witness ==
    /\ pc = "gather" /\ Len(active_connections) > Len(tasks)
    /\ broadcast_stats.total_sent >= 2 /\ broadcast_stats.total_errors >= 1

====
